---- MODULE Spec2Model ----
(***************************************************************************)
(* Multi-source data aggregation of the Dokkan MCP server: the prioritized *)
(* fetch orchestrator (WikiUpdater.getDataFromPrioritizedSources), the     *)
(* per-source rate limiter, the parser engine, the cache store             *)
(* (DataManager) and the cache-aware request handlers of server.js.        *)
(*                                                                         *)
(* Node.js runs one callback at a time: every action below is one run of   *)
(* the code between two awaits that yield to the event loop (a timer, a    *)
(* network response).  Time is wall-clock milliseconds (Date.now()).       *)
(***************************************************************************)
EXTENDS Integers, Sequences, FiniteSets, TLC

(***************************************************************************)
(* Bounds of the model.                                                    *)
(***************************************************************************)
\* Date.now() when the process starts (the real value is about 1.7e12)
StartTime == 10000
\* number of clock advances in one behaviour
MaxTicks == 2
\* number of operations (requests to the server) in one behaviour; they may
\* overlap in any way
NumCalls == 2

\* longest list of raw records handed to parseData on its own
MaxItems == 2
\* number of calls of learnParserForNewDataType in one behaviour
MaxLearns == 2

Calls == 1..NumCalls

\* amounts by which the clock advances between two callbacks: on the scale
\* of the rate limits, and on the scale of the cache lifetimes
ShortSteps == {1000}
LongSteps == {1800000}

(***************************************************************************)
(* config (wiki-updater.js)                                                *)
(***************************************************************************)
Sources == {"fandom", "dokkanInfo"}

\* Object.keys(config.wikiSources), in insertion order
SourceOrder == <<"fandom", "dokkanInfo">>

rateLimitMs(source) == IF source = "fandom" THEN 1000 ELSE 1500

\* data types of the model: two configured ones and one that is configured
\* nowhere (no priority list, no parser, no cacheTtl)
StaticTypes == {"cards", "events"}
UnknownType == "bosses"
AllTypes == StaticTypes \cup {UnknownType}

\* a configured data type with a priority list and no parser of its own
UnparsedType == "missions"

\* the data type names of the model
KnownTypes == AllTypes \cup {UnparsedType}

DefaultCacheTtl == 3600000

\* config.dataTypes[dataType]?.cacheTtl || 3600000
cacheTtl(dataType) ==
  CASE dataType = "cards" -> 3600000
    [] dataType = "events" -> 1800000
    [] OTHER -> DefaultCacheTtl

\* the freshness window hard-coded in the per-type handlers of server.js
handlerTtl(dataType) == 3600000

\* this.sourcePriorities as the constructor sets it; <<>> stands for undefined
InitialPriorities(dataType) ==
  CASE dataType = "cards" -> <<"fandom", "dokkanInfo">>
    [] dataType = "events" -> <<"dokkanInfo", "fandom">>
    [] dataType = "missions" -> <<"dokkanInfo", "fandom">>
    [] OTHER -> <<>>

(***************************************************************************)
(* Values and records.  A JavaScript value is a string with a type tag:    *)
(* "s:" string, "n:" number, "d:" Date object, "a:" array; Undef is        *)
(* undefined (the field is absent).                                        *)
(***************************************************************************)
Undef == "undefined"

Fields == {"name", "id", "type", "rarity", "atk", "title", "startDate", "endDate"}

NoFields == [fld \in Fields |-> Undef]

\* an element of a raw result: a plain object, null, or a primitive
ObjItem(f) == [kind |-> "obj", f |-> f]
NullItem == [kind |-> "null", f |-> NoFields]
PrimItem == [kind |-> "prim", f |-> NoFields]

\* config.parsers: requiredFields in order, transformation name per field
NoTransform == [fld \in Fields |-> "none"]

CardsParser ==
  [requiredFields |-> <<"name", "id", "type", "rarity">>,
   transformations |-> [NoTransform EXCEPT !["name"] = "trim", !["id"] = "string",
                                           !["atk"] = "int"]]

EventsParser ==
  [requiredFields |-> <<"title", "startDate", "endDate">>,
   transformations |-> [NoTransform EXCEPT !["startDate"] = "date", !["endDate"] = "date"]]

DefaultParser == [requiredFields |-> <<>>, transformations |-> NoTransform]

VARIABLES
  parsers,          \* config.parsers: the registered parsers, by key
  dataTypes         \* Object.keys(config.dataTypes)

\* config.parsers as the module defines it
InitialParsers ==
  ("cards" :> CardsParser) @@ ("events" :> EventsParser) @@ ("default" :> DefaultParser)

\* the keys of config.dataTypes as the module defines it
InitialDataTypes == {"cards", "events", "missions"}

\* config.parsers[dataType] || config.parsers.default
getParser(registry, dataType) ==
  IF dataType \in DOMAIN registry THEN registry[dataType] ELSE registry["default"]

parserConfig(dataType) == getParser(parsers, dataType)

getDefaultValueForField(field) ==
  CASE field = "id" -> "s:0"
    [] field = "name" -> "s:Unknown"
    [] field = "title" -> "s:Unknown"
    [] field = "startDate" -> "d:now"
    [] field = "endDate" -> "d:now"
    [] field = "type" -> "s:Unknown"
    [] field = "rarity" -> "s:N"
    [] field = "atk" -> "n:0"
    [] OTHER -> "s:"

\* the transformation functions of config.parsers, on the values of the model
transform(name, value) ==
  CASE name = "trim" ->
         (CASE value = "s: X " -> "s:X"
            [] value = "n:7" -> "s:7"
            [] OTHER -> value)
    [] name = "string" ->
         (CASE value = "n:7" -> "s:7"
            [] OTHER -> value)
    [] name = "int" ->
         (CASE value = "n:7" -> "n:7"
            [] value = "s:12" -> "n:12"
            [] OTHER -> "n:0")
    [] name = "date" ->
         (CASE value = "s:2024-01-01" -> "d:2024-01-01"
            [] value = "d:now" -> "d:now"
            [] OTHER -> "d:Invalid Date")
    \* the transformations learnParserForNewDataType builds
    [] name = "floatOrZero" ->
         (CASE value = "n:7" -> "n:7"
            [] value = "s:12" -> "n:12"
            [] value = "s:2024-01-01" -> "n:2024"
            [] OTHER -> "n:0")
    [] name = "Boolean" ->
         (IF value \in {"s:", "n:0", "null", "b:false"} THEN "b:false" ELSE "b:true")
    [] name = "dateOrNow" ->
         (CASE value = "s:2024-01-01" -> "d:2024-01-01"
            [] value = "d:2024-01-01" -> "d:2024-01-01"
            [] value = "s:12" -> "d:2001-12-01"
            \* new Date(7), new Date(true), new Date(null): the first instants of 1970
            [] value \in {"n:7", "n:0", "b:true", "b:false", "null"} -> "d:1970-01-01"
            [] OTHER -> "d:now")
    [] name = "arrayOrEmpty" -> (IF value = "a:[]" THEN value ELSE "a:[]")
    [] name = "objectOrEmpty" ->
         (IF value \in {"o:bare", "o:{}", "a:[]", "d:now", "d:2024-01-01", "d:Invalid Date"}
          THEN value ELSE "o:{}")
    [] name = "stringOrEmpty" ->
         (CASE value \in {"s:", "n:0", "null", "b:false", "a:[]"} -> "s:"
            [] value = "n:7" -> "s:7"
            [] value = "b:true" -> "s:true"
            [] value = "o:{}" -> "s:[object Object]"
            [] value \in {"d:now", "d:2024-01-01", "d:Invalid Date"} -> "s:" \o value
            [] OTHER -> value)
    [] OTHER -> value

\* the transformation throws on the value: String(v), parseInt(v) and
\* new Date(v) throw a TypeError on an object that cannot be converted to a
\* primitive ("o:bare": an object with no prototype)
transformThrows(name, value) ==
  name \notin {"none", "Boolean", "arrayOrEmpty", "objectOrEmpty"} /\ value = "o:bare"

\* a slip: the field whose transformation throws is cleared
applyTransform_clear(name, value) ==
  IF transformThrows(name, value) THEN Undef ELSE transform(name, value)

\* try { item[field] = transform(item[field]) } catch { console.warn(...) }
applyTransform(name, value) ==
  IF transformThrows(name, value) THEN value ELSE transform(name, value)

SeqToSet(s) == {s[i] : i \in 1..Len(s)}

HasTransformations(parser) == \E fld \in Fields : parser.transformations[fld] # "none"

\* parseData's callback throws a TypeError on this item: reading a property
\* of null, or (class bodies are strict code) setting one on a primitive
itemThrows(parser, item) ==
  \/ item.kind = "null" /\ (parser.requiredFields # <<>> \/ HasTransformations(parser))
  \/ item.kind = "prim" /\ parser.requiredFields # <<>>

\* the callback of dataArray.map in parseData, for an item it does not throw on
parseItem(parser, item) ==
  IF item.kind # "obj" THEN item
  ELSE
    LET filled == [fld \in Fields |->
                     IF fld \in SeqToSet(parser.requiredFields) /\ item.f[fld] = Undef
                     THEN getDefaultValueForField(fld) ELSE item.f[fld]]
        done == [fld \in Fields |->
                   IF parser.transformations[fld] # "none" /\ filled[fld] # Undef
                   THEN applyTransform(parser.transformations[fld], filled[fld])
                   ELSE filled[fld]]
    IN ObjItem(done)

parseThrows(dataType, rawData) ==
  \E i \in 1..Len(rawData) : itemThrows(parserConfig(dataType), rawData[i])

parseData(dataType, rawData) ==
  [i \in 1..Len(rawData) |-> parseItem(parserConfig(dataType), rawData[i])]

(***************************************************************************)
(* learnParserForNewDataType                                               *)
(***************************************************************************)
\* the fields in the order in which the model lists the keys of an object
FieldOrder == <<"name", "id", "type", "rarity", "atk", "title", "startDate", "endDate">>

\* allFields: the union of Object.keys(item) over the samples
allFields(sampleData) ==
  {fld \in Fields : \E i \in 1..Len(sampleData) : sampleData[i].f[fld] # Undef}

\* commonFields[field]: the number of samples with item[field] !== undefined
commonFields(sampleData, fld) ==
  Cardinality({i \in 1..Len(sampleData) : sampleData[i].f[fld] # Undef})

\* a slip: more than 75% of the samples
isCommon_strict(count, total) == 4 * count > 3 * total

\* count >= sampleData.length * 0.75
isCommon(count, total) == 4 * count >= 3 * total

\* !isNaN(Date.parse(value)) for a string; V8 also takes "12" for a date
dateParseable(value) == value \in {"s:2024-01-01", "s:12"}

\* the chain of tests on typeof value, instanceof Date, Array.isArray
inferType(value) ==
  CASE value \in {"n:7", "n:0"} -> "number"
    [] value \in {"b:true", "b:false"} -> "boolean"
    [] value \in {"d:now", "d:2024-01-01", "d:Invalid Date"} -> "date"
    [] value = "a:[]" -> "array"
    [] dateParseable(value) -> "date"
    [] value \in {"s:", "s:Goku", "s:Vegeta", "s:T", "s: X ", "s:AGL"} -> "string"
    [] value \in {"o:bare", "o:{}"} -> "object"
    [] OTHER -> "string"

\* a slip: every sample sets the type again
fieldTypeAfter_overwrite(known, value) == inferType(value)

\* if (!fieldTypes[field]) { ... }: the type of a field is inferred once
fieldTypeAfter(known, value) == IF known # "none" THEN known ELSE inferType(value)

\* fieldTypes[field] after the pass over the samples, in order
RECURSIVE fieldTypes(_, _, _)
fieldTypes(sampleData, fld, known) ==
  IF sampleData = <<>> THEN known
  ELSE fieldTypes(Tail(sampleData), fld,
                  IF Head(sampleData).f[fld] # Undef
                  THEN fieldTypeAfter(known, Head(sampleData).f[fld])
                  ELSE known)

\* the switch on the inferred type that builds the transformation of a field
transformationFor(type) ==
  CASE type = "number" -> "floatOrZero"
    [] type = "boolean" -> "Boolean"
    [] type = "date" -> "dateOrNow"
    [] type = "array" -> "arrayOrEmpty"
    [] type = "object" -> "objectOrEmpty"
    [] type = "string" -> "stringOrEmpty"
    [] OTHER -> "none"

\* fieldTypes when the pass over the samples is over ("none": no entry)
inferredTypes(sampleData) == [fld \in Fields |-> fieldTypes(sampleData, fld, "none")]

\* newParser: the required fields, and one transformation per typed field
newParser(sampleData) ==
  [requiredFields |->
     SelectSeq(FieldOrder,
               LAMBDA fld : /\ fld \in allFields(sampleData)
                            /\ isCommon(commonFields(sampleData, fld), Len(sampleData))),
   transformations |-> [fld \in Fields |-> transformationFor(inferredTypes(sampleData)[fld])]]

\* Object.keys(item) throws a TypeError on null
learnThrows(sampleData) == \E i \in 1..Len(sampleData) : sampleData[i].kind = "null"

\* a slip: the fields the registered parser of the type requires stay required
learnResult_merge(registry, dataType, sampleData) ==
  IF sampleData = <<>> THEN registry["default"]
  ELSE [newParser(sampleData) EXCEPT
          !.requiredFields =
             SelectSeq(FieldOrder,
                       LAMBDA fld : \/ fld \in SeqToSet(newParser(sampleData).requiredFields)
                                    \/ fld \in SeqToSet(getParser(registry, dataType).requiredFields))]

\* what learnParserForNewDataType(dataType, sampleData) returns
learnResult(registry, dataType, sampleData) ==
  IF sampleData = <<>> THEN registry["default"] ELSE newParser(sampleData)

\* a slip: the learned parser is also made the default parser
registryAfterLearn_shared(registry, dataType, sampleData) ==
  IF sampleData = <<>> THEN registry
  ELSE (dataType :> learnResult(registry, dataType, sampleData))
         @@ ("default" :> learnResult(registry, dataType, sampleData)) @@ registry

\* config.parsers after learnParserForNewDataType(dataType, sampleData)
registryAfterLearn(registry, dataType, sampleData) ==
  IF sampleData = <<>> THEN registry
  ELSE (dataType :> learnResult(registry, dataType, sampleData)) @@ registry

\* sample records for learnParserForNewDataType on its own
SampleA ==
  ObjItem([NoFields EXCEPT !["name"] = "s:Goku", !["id"] = "n:7",
                           !["startDate"] = "s:2024-01-01"])
SampleB ==
  ObjItem([NoFields EXCEPT !["name"] = "s:Vegeta", !["id"] = "s:AGL", !["atk"] = "a:[]",
                           !["type"] = "o:{}"])
SampleC ==
  ObjItem([NoFields EXCEPT !["name"] = "null", !["id"] = "b:true", !["startDate"] = "d:now"])

\* the sample lists: no sample, one, several in two orders, fields present in
\* 1, 2 and 3 of 4 samples and in 2 of 3
LearnSamples ==
  {<<>>, <<SampleA>>, <<SampleB>>, <<SampleC>>,
   <<SampleA, SampleB>>, <<SampleB, SampleA>>, <<SampleC, SampleA>>,
   <<SampleA, SampleA, SampleB>>, <<SampleB, SampleC, SampleA>>,
   <<SampleA, SampleA, SampleA, SampleB>>, <<SampleA, SampleB, SampleB, SampleB>>,
   <<SampleA, SampleA, SampleB, SampleB>>}

\* the data types a parser is learned for: one with a parser of its own, two
\* without
LearnTypes == {"cards", UnknownType, UnparsedType}

(***************************************************************************)
(* What fetchFn(source) can settle with: a rejection, or a raw value.      *)
(***************************************************************************)
RawThrow == [kind |-> "throw", items |-> <<>>, value |-> NullItem]
RawFalsy == [kind |-> "falsy", items |-> <<>>, value |-> NullItem]
RawArray(items) == [kind |-> "array", items |-> items, value |-> NullItem]
\* a truthy value that is not an array
RawObject(item) == [kind |-> "object", items |-> <<>>, value |-> item]

GoodItem == ObjItem([NoFields EXCEPT !["name"] = "s: X ", !["title"] = "s:T"])
OtherItem == ObjItem([NoFields EXCEPT !["id"] = "n:7", !["startDate"] = "s:2024-01-01"])

\* the answers of a source in the state machine: a rejection, an empty list,
\* a list of one well-formed record, a list holding null
RawOutcomes == {RawThrow, RawArray(<<>>), RawArray(<<GoodItem>>), RawArray(<<NullItem>>)}

\* a slip: only !rawData is tested, an empty array goes on to parseData
isEmptyRaw_falsy(raw) == raw.kind = "falsy"

\* !rawData || (Array.isArray(rawData) && rawData.length === 0)
isEmptyRaw(raw) == raw.kind = "falsy" \/ (raw.kind = "array" /\ raw.items = <<>>)

\* Array.isArray(rawData) ? rawData : [rawData]
dataArray(raw) == IF raw.kind = "array" THEN raw.items ELSE <<raw.value>>

\* records for parseData on its own: one without any field, one whose
\* fields all make their transformation throw, one with a field that throws
\* next to fields that can be transformed
EmptyItem == ObjItem(NoFields)
BareItem ==
  ObjItem([NoFields EXCEPT !["name"] = "o:bare", !["id"] = "o:bare", !["atk"] = "o:bare",
                           !["startDate"] = "o:bare", !["endDate"] = "o:bare"])
MixedItem ==
  ObjItem([NoFields EXCEPT !["name"] = "o:bare", !["id"] = "n:7", !["atk"] = "s:12",
                           !["type"] = "s:AGL", !["title"] = "s:T",
                           !["startDate"] = "o:bare", !["endDate"] = "s:2024-01-01"])

ParseItems == {NullItem, PrimItem, EmptyItem, GoodItem, OtherItem, BareItem, MixedItem}

RECURSIVE ListsUpTo(_, _)
ListsUpTo(items, n) ==
  IF n = 0 THEN {<<>>}
  ELSE ListsUpTo(items, n - 1)
         \cup {Append(l, it) : l \in ListsUpTo(items, n - 1), it \in items}

\* the raw values parseData is called with: lists of records, and single
\* values that are not arrays
ParseInputs ==
  {RawArray(l) : l \in ListsUpTo(ParseItems, MaxItems)} \cup {RawObject(it) : it \in ParseItems}

(***************************************************************************)
(* State                                                                   *)
(***************************************************************************)
VARIABLES
  now,              \* Date.now()
  ticks,            \* number of clock advances so far
  lastRequestTime,  \* WikiUpdater.lastRequestTime
  sourcePriorities, \* WikiUpdater.sourcePriorities
  cache,            \* the files of DataManager.cachePath, by key
  calls,            \* the pending asynchronous operations
  inflight,         \* the fetchFn promises that have not settled yet
  lastIssued,       \* history: when the latest request to each source started
  parseRun,         \* a call of parseData on its own: its arguments, its outcome
  learnLog          \* history: the calls of learnParserForNewDataType on its own

vars ==
  <<now, ticks, lastRequestTime, sourcePriorities, cache, calls, inflight, lastIssued,
    parseRun, parsers, dataTypes, learnLog>>

\* getCachedData found no file under the key: null
NoEntry ==
  [present |-> FALSE, data |-> <<>>, timestamp |-> 0, source |-> "none",
   tagSource |-> "none", tagTime |-> 0]

\* a cache record { data, timestamp, source }; source "none": the record has
\* no such key.  tagSource and tagTime are the properties source and
\* fetchTime of the array data itself ("none", 0: the array has none)
Entry(data, timestamp, source) ==
  [present |-> TRUE, data |-> data, timestamp |-> timestamp, source |-> source,
   tagSource |-> "none", tagTime |-> 0]

\* the record whose data is the list getDataFromPrioritizedSources returned:
\* the list carries parsedData.source and parsedData.fetchTime
WithTags(entry, result) ==
  [entry EXCEPT !.tagSource = result.source, !.tagTime = result.fetchTime]

(***************************************************************************)
(* DataManager (data-manager.js): one JSON file per key                    *)
(***************************************************************************)
\* JSON.parse(JSON.stringify(value)) of a field value: a Date becomes the
\* string of its toJSON (null for an invalid date), an object with no
\* prototype comes back as a plain object, an absent field stays absent
jsonValue(value) ==
  CASE value = "d:now" -> "s:now"
    [] value = "d:2024-01-01" -> "s:2024-01-01T00:00:00.000Z"
    [] value = "d:Invalid Date" -> "null"
    [] value = "o:bare" -> "o:{}"
    [] OTHER -> value

jsonItem(item) ==
  IF item.kind = "obj" THEN [item EXCEPT !.f = [fld \in Fields |-> jsonValue(item.f[fld])]]
  ELSE item

\* JSON.parse(JSON.stringify(record)): the elements of data go through
\* JSON, the properties of the array other than its elements are left out
jsonRecord(entry) ==
  [entry EXCEPT !.data = [i \in 1..Len(entry.data) |-> jsonItem(entry.data[i])],
                !.tagSource = "none", !.tagTime = 0]

\* fs.readFile rejects (ENOENT): no file under the key
ReadError == [NoEntry EXCEPT !.source = "ENOENT"]

\* fs.readFile(filepath) followed by JSON.parse
readFile(ch, key) == IF ch[key].present THEN ch[key] ELSE ReadError

\* a slip: no catch around the read, the rejection reaches the caller
getCachedData_nocatch(ch, key) == readFile(ch, key)

\* getCachedData(key): the record of the file, or null when the read fails
getCachedData(ch, key) ==
  IF readFile(ch, key) = ReadError THEN NoEntry ELSE readFile(ch, key)

\* cacheData(key, data): the file of the key holds JSON.stringify(data); the
\* cache of the model keeps what JSON.parse gives back for it
cacheData(ch, key, entry) == [ch EXCEPT ![key] = jsonRecord(entry)]

\* what an operation answers
NoResult ==
  [status |-> "none", error |-> "none", cause |-> "none", data |-> <<>>,
   source |-> "none", fetchTime |-> 0, fromCache |-> FALSE]

\* one pending operation.  Three fields are history: attempts, the attempts of
\* the current getDataFromPrioritizedSources call in order, samples and
\* scored, the history of updateSourcePriorities (what getSample gave for the
\* data type at hand, and one record for each data type it is through with),
\* discover, the new types discoverAndCreateParsers has still to go through,
\* registered, the calls of learnParserForNewDataType it made, age, the age of
\* the cache entry the operation read last (-1: it found none, or read none),
\* and requested, the list of data types updateFromWiki was called with
IdleCall ==
  [kind |-> "none", pc |-> "idle", dataType |-> "none", priorities |-> <<>>, idx |-> 0,
   lastError |-> "none", wakeAt |-> 0, attempts |-> <<>>, age |-> -1,
   todo |-> <<>>, requested |-> <<>>, results |-> <<>>, freshness |-> <<>>,
   samples |-> <<>>, scored |-> <<>>, discover |-> <<>>, registered |-> <<>>,
   result |-> NoResult]

\* the key `card-${cardId}` of the file of the card getCardData is asked for
CardKey == "card-7"

\* the keys the model has files for: the data types and one card
CacheKeys == KnownTypes \cup {CardKey}

\* parseData(dataType, rawData) before it ran; NoParseRun: there is no such call
ParseRun(dataType, raw) ==
  [dataType |-> dataType, raw |-> raw, done |-> FALSE, threw |-> FALSE, output |-> <<>>]

NoParseRun == ParseRun("none", RawFalsy)

InitState ==
  /\ now = StartTime
  /\ ticks = 0
  /\ lastRequestTime = [s \in Sources |-> 0]
  /\ sourcePriorities = [t \in KnownTypes |-> InitialPriorities(t)]
  /\ cache = [k \in CacheKeys |-> NoEntry]
  /\ calls = [c \in Calls |-> IdleCall]
  /\ inflight = {}
  /\ lastIssued = [s \in Sources |-> -1]
  /\ parsers = InitialParsers
  /\ dataTypes = InitialDataTypes
  /\ learnLog = <<>>

Init == InitState /\ parseRun = NoParseRun

\* a slip: only the file of the first key is removed
clearCache_first(ch) == [ch EXCEPT !["cards"] = NoEntry]

\* clearCache(): fs.unlink of every file of the cache directory
clearCache(ch) == [k \in DOMAIN ch |-> NoEntry]

(***************************************************************************)
(* getDataFromPrioritizedSources                                           *)
(***************************************************************************)
\* respectRateLimit: the delay it computes; it waits when the delay is > 0
rateLimitDelay(source, lastRequest, t) == rateLimitMs(source) - (t - lastRequest)

\* the error getDataFromPrioritizedSources throws after the loop
exhaustedResult(lastError) ==
  [NoResult EXCEPT !.status = "error", !.error = "exhausted", !.cause = lastError]

configErrorResult == [NoResult EXCEPT !.status = "error", !.error = "config"]

\* a slip: the list is tagged with the most preferred source
resultSource_first(priorities, idx) == priorities[1]

\* the tag put on the parsed list: parsedData.source = source
resultSource(priorities, idx) == priorities[idx]

successResult(dataType, raw, priorities, idx, t) ==
  [NoResult EXCEPT !.status = "ok", !.data = parseData(dataType, dataArray(raw)),
                   !.source = resultSource(priorities, idx), !.fetchTime = t]

\* a slip: a fetch reads this.sourcePriorities[dataType] again at the head of
\* every iteration
loopHead_live(cr, i, lrt, t) ==
  LET live == [cr EXCEPT !.priorities = IF cr.kind = "fetch" THEN sourcePriorities[cr.dataType]
                                        ELSE @]
  IN IF i > Len(live.priorities)
     THEN [live EXCEPT !.pc = "returned", !.idx = i, !.result = exhaustedResult(cr.lastError)]
     ELSE IF rateLimitDelay(live.priorities[i], lrt[live.priorities[i]], t) > 0
          THEN [live EXCEPT !.pc = "wait", !.idx = i,
                            !.wakeAt = t + rateLimitDelay(live.priorities[i],
                                                          lrt[live.priorities[i]], t)]
          ELSE [live EXCEPT !.pc = "fetching", !.idx = i]

\* the head of one iteration of `for (const source of priorities)`: the loop
\* is over (all sources failed), or respectRateLimit waits, or fetchFn is called
loopHead(cr, i, lrt, t) ==
  IF i > Len(cr.priorities)
  THEN [cr EXCEPT !.pc = "returned", !.idx = i, !.result = exhaustedResult(cr.lastError)]
  ELSE IF rateLimitDelay(cr.priorities[i], lrt[cr.priorities[i]], t) > 0
       THEN [cr EXCEPT !.pc = "wait", !.idx = i,
                       !.wakeAt = t + rateLimitDelay(cr.priorities[i], lrt[cr.priorities[i]], t)]
       ELSE [cr EXCEPT !.pc = "fetching", !.idx = i]

\* a slip: a type without a list falls back to all the configured sources
prioritiesOf_fallback(prios, dataType) ==
  IF Len(prios[dataType]) = 0 THEN SourceOrder ELSE prios[dataType]

\* a slip: every type walks the list of cards
prioritiesOf_cards(prios, dataType) == prios["cards"]

\* the priority list the call walks: this.sourcePriorities[dataType]
prioritiesOf(prios, dataType) == prios[dataType]

\* entry of getDataFromPrioritizedSources(dataType, fetchFn)
fetchBestEntry(cr, dataType, prios, lrt, t) ==
  LET list == prioritiesOf(prios, dataType)
      c0 == [cr EXCEPT !.dataType = dataType, !.priorities = list, !.idx = 0,
                       !.lastError = "none", !.attempts = <<>>, !.result = NoResult]
  IN IF Len(list) = 0
     THEN [c0 EXCEPT !.pc = "returned", !.result = configErrorResult]
     ELSE loopHead(c0, 1, lrt, t)

\* what one attempt ended with
attemptOutcome(dataType, raw) ==
  CASE raw.kind = "throw" -> "throw"
    [] isEmptyRaw(raw) -> "empty"
    [] parseThrows(dataType, dataArray(raw)) -> "parse_error"
    [] OTHER -> "ok"

\* lastRequestTime after fetchFn(source) settled with raw at time t: the
\* assignment follows the await, so a rejection skips it
lastRequestAfter(lrt, source, raw, t) ==
  IF raw.kind = "throw" THEN lrt ELSE [lrt EXCEPT ![source] = t]

\* a slip: a source that failed is asked once more before the next one
afterResponse_retry(cr, raw, lrt, t) ==
  LET source == cr.priorities[cr.idx]
      outcome == attemptOutcome(cr.dataType, raw)
      logged == [cr EXCEPT !.attempts = Append(@, [source |-> source, outcome |-> outcome,
                                                   raw |-> raw])]
  IN CASE outcome = "ok" ->
            [logged EXCEPT !.pc = "returned",
                           !.result = successResult(cr.dataType, raw, cr.priorities, cr.idx, t)]
       [] outcome = "empty" -> loopHead(logged, cr.idx + 1, lrt, t)
       [] OTHER ->
            loopHead([logged EXCEPT !.lastError = IF outcome = "throw" THEN "fetch:" \o source
                                                  ELSE "parse:" \o source],
                     IF Len(cr.attempts) < cr.idx THEN cr.idx ELSE cr.idx + 1, lrt, t)

\* the rest of the loop body once fetchFn settled, then the next iteration
afterResponse(cr, raw, lrt, t) ==
  LET source == cr.priorities[cr.idx]
      outcome == attemptOutcome(cr.dataType, raw)
      logged == [cr EXCEPT !.attempts = Append(@, [source |-> source, outcome |-> outcome,
                                                   raw |-> raw])]
  IN CASE outcome = "ok" ->
            [logged EXCEPT !.pc = "returned",
                           !.result = successResult(cr.dataType, raw, cr.priorities, cr.idx, t)]
       [] outcome = "empty" -> loopHead(logged, cr.idx + 1, lrt, t)
       [] OTHER ->
            loopHead([logged EXCEPT !.lastError = IF outcome = "throw" THEN "fetch:" \o source
                                                  ELSE "parse:" \o source],
                     cr.idx + 1, lrt, t)

(***************************************************************************)
(* The callers of getDataFromPrioritizedSources                            *)
(***************************************************************************)
\* the age of a cache entry as a reader computes it: Date.now() - timestamp
entryAge(entry, t) == IF entry.present THEN t - entry.timestamp ELSE -1

\* the freshness test of the per-type handlers (server.js)
handlerFresh(entry, dataType, t) == entry.present /\ t - entry.timestamp < handlerTtl(dataType)

\* the freshness test of updateFromWiki
updateFresh(entry, dataType, t) == entry.present /\ t - entry.timestamp < cacheTtl(dataType)

\* the record a per-type handler writes: { data, timestamp: Date.now() }
handlerEntry(result, t) == WithTags(Entry(result.data, t, "none"), result)

\* what getCardData writes: the list itself, with no time stamp in it; the
\* timestamp of the model is the time the file was written, which no code reads
cardEntry(result, t) == WithTags(Entry(result.data, t, "none"), result)

\* a slip: a card is served from its file for an hour only
cardHit_ttl(entry, t) == entry.present /\ t - entry.timestamp < 3600000

\* getCardData: if (cachedData) return cachedData
cardHit(entry, t) == entry.present

\* the record updateFromWiki writes: { data, timestamp, source: data.source || 'unknown' }
updateEntry(result, t) == WithTags(Entry(result.data, t, result.source), result)

\* one entry of the results object of updateFromWiki
Summary(dataType, count, fromCache, source, age) ==
  [dataType |-> dataType, count |-> count, fromCache |-> fromCache, source |-> source,
   age |-> age]

\* a slip: the source that answered a fetch is moved to the front of the list
StepOf_promote(cr, ch, prios) ==
  [call |-> cr, cache |-> ch,
   prios |-> IF cr.kind # "rescore" /\ cr.result.status = "ok" /\ cr.result.source \in Sources
             THEN [prios EXCEPT ![cr.dataType] =
                     <<cr.result.source>>
                       \o SelectSeq(@, LAMBDA s : s # cr.result.source)]
             ELSE prios]

\* what a step leaves behind: the call, the cache and the priority lists
StepOf(cr, ch, prios) == [call |-> cr, cache |-> ch, prios |-> prios]

\* a slip: the record is written whatever the fetch ended with
cacheAfterFetch_always(ch, cr, entry) == cacheData(ch, cr.dataType, entry)

\* a slip: a fetch that fails discards what the store holds
cacheAfterFetch_rollback(ch, cr, entry) ==
  IF cr.result.status = "ok" THEN cacheData(ch, cr.dataType, entry) ELSE clearCache(ch)

\* the store after `await getDataFromPrioritizedSources(...)` and the
\* cacheData call that follows it: when the fetch throws, the caller is left
\* and the cacheData call is not reached
cacheAfterFetch(ch, cr, entry) ==
  IF cr.result.status = "ok" THEN cacheData(ch, cr.dataType, entry) ELSE ch

RECURSIVE updateLoop(_, _, _, _, _)
RECURSIVE discoverLoop(_, _, _, _, _)
RECURSIVE continuation(_, _, _, _, _)

\* what runs when getDataFromPrioritizedSources has returned or thrown (pc =
\* "returned"): the rest of the caller, up to its next await on the network
\* or on a timer.  Gives the call, the cache and the priority lists.
continuation(cr, ch, prios, lrt, t) ==
  CASE cr.pc # "returned" -> StepOf(cr, ch, prios)
    [] cr.kind = "handler" ->
         StepOf([cr EXCEPT !.pc = "done"],
                cacheAfterFetch(ch, cr, handlerEntry(cr.result, t)), prios)
    [] cr.kind = "card" ->
         \* getCardData: cacheData(`card-${cardId}`, cardData), return cardData
         StepOf([cr EXCEPT !.pc = "done"],
                IF cr.result.status = "ok"
                THEN cacheData(ch, CardKey, cardEntry(cr.result, t)) ELSE ch,
                prios)
    [] cr.kind = "update" /\ cr.discover # <<>> ->
         \* discoverAndCreateParsers: the sample is learned from; an error of the
         \* fetch or of learnParserForNewDataType is caught and logged
         discoverLoop([cr EXCEPT !.discover = Tail(@),
                                 !.registered =
                                    IF cr.result.status = "ok" /\ ~learnThrows(cr.result.data)
                                    THEN Append(@, [dataType |-> Head(cr.discover),
                                                    sampleData |-> cr.result.data])
                                    ELSE @],
                      ch, prios, lrt, t)
    [] cr.kind = "update" /\ cr.discover = <<>> ->
         IF cr.result.status = "ok"
         THEN \* data is never empty here: the else branch ('No data found') is dead
              updateLoop([cr EXCEPT !.todo = Tail(@),
                                    !.results = Append(@, Summary(cr.dataType,
                                                   Len(cr.result.data), FALSE,
                                                   cr.result.source, cr.age))],
                         cacheAfterFetch(ch, cr, updateEntry(cr.result, t)),
                         prios, lrt, t)
         ELSE \* the outer catch: { success: false, message }
              StepOf([cr EXCEPT !.pc = "done", !.results = <<>>],
                     cacheAfterFetch(ch, cr, updateEntry(cr.result, t)), prios)
    [] OTHER -> StepOf([cr EXCEPT !.pc = "done"], ch, prios)

\* the loop `for (const type of newTypes)` of discoverAndCreateParsers, from
\* the head of cr.discover on, and then the rest of updateFromWiki
discoverLoop(cr, ch, prios, lrt, t) ==
  IF cr.discover = <<>>
  THEN updateLoop([cr EXCEPT !.dataType = "none", !.priorities = <<>>, !.idx = 0,
                             !.lastError = "none", !.wakeAt = 0, !.attempts = <<>>,
                             !.result = NoResult],
                  ch, prios, lrt, t)
  ELSE continuation(fetchBestEntry(cr, Head(cr.discover), prios, lrt, t), ch, prios, lrt, t)

\* the loop `for (const dataType of typesToUpdate)` of updateFromWiki, from
\* the head of cr.todo on
updateLoop(cr, ch, prios, lrt, t) ==
  IF cr.todo = <<>>
  THEN StepOf([cr EXCEPT !.pc = "done",
                         !.result = [NoResult EXCEPT !.status = "ok"]], ch, prios)
  ELSE LET dataType == Head(cr.todo)
           entry == getCachedData(ch, dataType)
       IN IF updateFresh(entry, dataType, t)
          THEN updateLoop([cr EXCEPT !.todo = Tail(@),
                                     !.results = Append(@, Summary(dataType, Len(entry.data),
                                                    TRUE, "none", entryAge(entry, t)))],
                          ch, prios, lrt, t)
          ELSE continuation(fetchBestEntry([cr EXCEPT !.age = entryAge(entry, t)],
                                           dataType, prios, lrt, t),
                            ch, prios, lrt, t)

(***************************************************************************)
(* updateSourcePriorities                                                  *)
(***************************************************************************)
\* Object.keys(config.dataTypes), in insertion order
DataTypeOrder == <<"cards", "events">>

\* a record of a sample, by what calculateFreshnessScore reads of it: the
\* time of updatedAt || lastModified scaled by 1/1000000 (0: neither is
\* there), parseFloat(version) (0: no version), the number of keys
SampleItem(updated, version, keys) == [updated |-> updated, version |-> version, keys |-> keys]

SampleThrow == [kind |-> "throw", items |-> <<>>]
SampleList(items) == [kind |-> "array", items |-> items]

SampleOutcomes ==
  {SampleThrow, SampleList(<<>>), SampleList(<<SampleItem(0, 1, 3)>>),
   SampleList(<<SampleItem(0, 2, 3)>>)}

\* samples of one record with a time stamp (1700000: 2023-11-14, in units
\* of 1000000 ms), a version and 3 or 5 keys
SampleV1 == SampleList(<<SampleItem(1700000, 1, 3)>>)
SampleV2 == SampleList(<<SampleItem(1700000, 2, 3)>>)
SampleV1Late == SampleList(<<SampleItem(1702000, 1, 3)>>)
SampleV1Later == SampleList(<<SampleItem(1700001, 1, 3)>>)
SampleV1Wide == SampleList(<<SampleItem(1700000, 1, 5)>>)

\* what getSample can settle with when the ranking itself is looked at
RankSamples ==
  {SampleThrow, SampleList(<<>>), SampleV1, SampleV2, SampleV1Late, SampleV1Later,
   SampleV1Wide}

RECURSIVE SumOf(_, _)
SumOf(items, fld) ==
  IF items = <<>> THEN 0 ELSE Head(items)[fld] + SumOf(Tail(items), fld)

Filtered(items, fld) == SelectSeq(items, LAMBDA it : it[fld] # 0)

\* calculateFreshnessScore, in whole numbers
calculateFreshnessScore(data) ==
  IF Len(data) = 0 THEN 0
  ELSE (IF Len(Filtered(data, "updated")) > 0
        THEN SumOf(Filtered(data, "updated"), "updated") \div Len(Filtered(data, "updated"))
        ELSE 0)
     + (IF Len(Filtered(data, "version")) > 0
        THEN (SumOf(Filtered(data, "version"), "version") * 1000)
               \div Len(Filtered(data, "version"))
        ELSE 0)
     + (SumOf(data, "keys") * 10) \div Len(data)

\* the score of a source whose sample fetch threw
ErrorScore == -1

\* Array.prototype.sort with (a, b) => scoreB - scoreA: a stable sort of the
\* entries, by descending score
RECURSIVE insertByScore(_, _, _)
insertByScore(sorted, source, score) ==
  IF sorted = <<>> THEN <<source>>
  ELSE IF score[Head(sorted)] >= score[source]
       THEN <<Head(sorted)>> \o insertByScore(Tail(sorted), source, score)
       ELSE <<source>> \o sorted

RECURSIVE sortByScore(_, _)
sortByScore(list, score) ==
  IF list = <<>> THEN <<>>
  ELSE insertByScore(sortByScore(SubSeq(list, 1, Len(list) - 1), score), list[Len(list)], score)

\* a slip: the sources whose sample fetch threw are ranked last
newPriorities_keep(freshness) == sortByScore(SourceOrder, freshness)

\* Object.entries(freshness).filter(score >= 0).sort(descending).map(source)
newPriorities(freshness) ==
  sortByScore(SelectSeq(SourceOrder, LAMBDA s : freshness[s] >= 0), freshness)

\* a slip: the new list is assigned even when it is empty
prioritiesAfter_always(prios, dataType, freshness) ==
  [prios EXCEPT ![dataType] = newPriorities(freshness)]

\* the end of one iteration of the loop over the data types
prioritiesAfter(prios, dataType, freshness) ==
  IF Len(newPriorities(freshness)) > 0
  THEN [prios EXCEPT ![dataType] = newPriorities(freshness)]
  ELSE prios

NoFreshness == [s \in Sources |-> ErrorScore]

\* no sample was asked of the source yet
NoSample == [kind |-> "none", items |-> <<>>]
NoSamples == [s \in Sources |-> NoSample]

\* history: the iteration for dataType is over; the list it found, what
\* getSample gave, the scores, and the list the type has now
Scored(cr, prios) ==
  [dataType |-> Head(cr.todo), prior |-> prios[Head(cr.todo)], samples |-> cr.samples,
   freshness |-> cr.freshness,
   list |-> prioritiesAfter(prios, Head(cr.todo), cr.freshness)[Head(cr.todo)]]

\* the head of one iteration of `for (const source of Object.keys(config.wikiSources))`
\* for the data type at the head of cr.todo; position i past the last source
\* ends the iteration of the outer loop
RECURSIVE rescoreHead(_, _, _, _, _, _)
rescoreHead(cr, i, ch, prios, lrt, t) ==
  IF cr.todo = <<>>
  THEN StepOf([cr EXCEPT !.pc = "done", !.result = [NoResult EXCEPT !.status = "ok"]],
              ch, prios)
  ELSE IF i > Len(SourceOrder)
       THEN rescoreHead([cr EXCEPT !.todo = Tail(@), !.freshness = NoFreshness,
                                   !.samples = NoSamples,
                                   !.scored = Append(@, Scored(cr, prios))], 1, ch,
                        prioritiesAfter(prios, Head(cr.todo), cr.freshness), lrt, t)
       ELSE LET c0 == [cr EXCEPT !.dataType = Head(cr.todo), !.priorities = SourceOrder]
            IN StepOf(loopHead(c0, i, lrt, t), ch, prios)

\* the body of the inner loop once getSample settled
rescoreAfterResponse(cr, sample, ch, prios, lrt, t) ==
  LET source == SourceOrder[cr.idx]
      score == IF sample.kind = "throw" THEN ErrorScore
               ELSE calculateFreshnessScore(sample.items)
  IN rescoreHead([cr EXCEPT !.freshness = [@ EXCEPT ![source] = score],
                            !.samples = [@ EXCEPT ![source] = sample]],
                 cr.idx + 1, ch, prios, lrt, t)

lastRequestAfterSample(lrt, source, sample, t) ==
  IF sample.kind = "throw" THEN lrt ELSE [lrt EXCEPT ![source] = t]

(***************************************************************************)
(* Actions                                                                 *)
(***************************************************************************)
\* a slip: the requests to the remaining sources start together (a fan-out)
positionsRequested_all(priorities, idx) == idx..Len(priorities)

\* the positions of the priority list whose request starts when the loop
\* reaches position idx
positionsRequested(priorities, idx) == {idx}

requestsOf(c, cr) ==
  IF cr.pc = "fetching"
  THEN {[call |-> c, kind |-> cr.kind, dataType |-> cr.dataType,
         source |-> cr.priorities[i], pos |-> i] :
          i \in positionsRequested(cr.priorities, cr.idx)}
  ELSE {}

\* config.parsers after the calls of learnParserForNewDataType in learned
RECURSIVE registerAll(_, _)
registerAll(registry, learned) ==
  IF learned = <<>> THEN registry
  ELSE registerAll(registryAfterLearn(registry, Head(learned).dataType,
                                      Head(learned).sampleData),
                   Tail(learned))

\* the calls of learnParserForNewDataType the step of call c made
learnedInStep(c, step) ==
  SubSeq(step.call.registered, Len(calls[c].registered) + 1, Len(step.call.registered))

\* the step of call c settles the requests in settled and leaves the call,
\* the cache and the priority lists as in step; the parsers it learned are
\* registered and their types are added to config.dataTypes
Commit(c, settled, step) ==
  /\ calls' = [calls EXCEPT ![c] = step.call]
  /\ parsers' = registerAll(parsers, learnedInStep(c, step))
  /\ dataTypes' = dataTypes \cup {learnedInStep(c, step)[i].dataType :
                                    i \in 1..Len(learnedInStep(c, step))}
  /\ cache' = step.cache
  /\ sourcePriorities' = step.prios
  /\ inflight' = (inflight \ settled) \cup requestsOf(c, step.call)
  /\ lastIssued' = [s \in Sources |->
                      IF \E r \in requestsOf(c, step.call) : r.source = s
                      THEN now ELSE lastIssued[s]]

\* call c is the next operation to start: operations are numbered in the
\* order in which they start
CanStart(c) ==
  /\ calls[c].pc = "idle"
  /\ \A d \in Calls : d < c => calls[d].pc # "idle"

\* searchCards, checkAnniversaryStatus, getGenericDataFromBestSource: a caller
\* that uses no cache
StartFetch(c, dataType) ==
  /\ CanStart(c)
  /\ Commit(c, {}, continuation(
         fetchBestEntry([IdleCall EXCEPT !.kind = "fetch"],
                        dataType, sourcePriorities, lastRequestTime, now),
         cache, sourcePriorities, lastRequestTime, now))
  /\ UNCHANGED <<now, ticks, lastRequestTime, parseRun, learnLog>>

\* getLatestCards, getEvents, ... (server.js)
StartHandler(c, dataType) ==
  /\ CanStart(c)
  /\ IF handlerFresh(getCachedData(cache, dataType), dataType, now)
     THEN Commit(c, {}, StepOf([IdleCall EXCEPT !.kind = "handler", !.pc = "done",
                                                !.dataType = dataType,
                                                !.age = entryAge(getCachedData(cache, dataType), now),
                                                !.result = [NoResult EXCEPT !.status = "ok",
                                                              !.data = getCachedData(cache, dataType).data,
                                                              !.fromCache = TRUE]],
                               cache, sourcePriorities))
     ELSE Commit(c, {}, continuation(
              fetchBestEntry([IdleCall EXCEPT !.kind = "handler",
                                              !.age = entryAge(getCachedData(cache, dataType), now)],
                             dataType, sourcePriorities, lastRequestTime, now),
              cache, sourcePriorities, lastRequestTime, now))
  /\ UNCHANGED <<now, ticks, lastRequestTime, parseRun, learnLog>>

\* getCardData(cardId) (server.js)
StartCard(c) ==
  /\ CanStart(c)
  /\ IF cardHit(getCachedData(cache, CardKey), now)
     THEN Commit(c, {}, StepOf([IdleCall EXCEPT !.kind = "card", !.pc = "done",
                                                !.dataType = "cards",
                                                !.result = [NoResult EXCEPT !.status = "ok",
                                                              !.data = getCachedData(cache, CardKey).data,
                                                              !.fromCache = TRUE]],
                               cache, sourcePriorities))
     ELSE Commit(c, {}, continuation(
              fetchBestEntry([IdleCall EXCEPT !.kind = "card"],
                             "cards", sourcePriorities, lastRequestTime, now),
              cache, sourcePriorities, lastRequestTime, now))
  /\ UNCHANGED <<now, ticks, lastRequestTime, parseRun, learnLog>>

\* the lists of data types updateFromWiki is called with (null: all of
\* config.dataTypes)
UpdateLists == {DataTypeOrder, <<"events">>, <<UnknownType, "cards">>}

\* what the two getAvailableDataTypes calls of discoverAndCreateParsers give
DiscoveredLists == {<<>>, <<"cards">>, <<UnknownType>>}

\* discoverAndCreateParsers: allTypes.filter(type => !config.parsers[type])
newTypes(registry, discovered) ==
  SelectSeq(discovered, LAMBDA ty : ty \notin DOMAIN registry)

\* updateFromWiki(dataTypes)
StartUpdate(c, types, discovered) ==
  /\ CanStart(c)
  /\ Commit(c, {}, discoverLoop([IdleCall EXCEPT !.kind = "update", !.todo = types,
                                            !.requested = types,
                                            !.discover = newTypes(parsers, discovered)],
                            cache, sourcePriorities, lastRequestTime, now))
  /\ UNCHANGED <<now, ticks, lastRequestTime, parseRun, learnLog>>

\* updateSourcePriorities()
StartRescore(c) ==
  /\ CanStart(c)
  /\ Commit(c, {}, rescoreHead([IdleCall EXCEPT !.kind = "rescore", !.todo = DataTypeOrder,
                                            !.freshness = NoFreshness,
                                            !.samples = NoSamples],
                           1, cache, sourcePriorities, lastRequestTime, now))
  /\ UNCHANGED <<now, ticks, lastRequestTime, parseRun, learnLog>>

\* DataManager.clearCache(): every file of the cache directory is removed
ClearCache ==
  /\ \E k \in CacheKeys : cache[k].present
  /\ cache' = clearCache(cache)
  /\ UNCHANGED <<now, ticks, lastRequestTime, sourcePriorities, calls, inflight, lastIssued, parseRun, parsers, dataTypes, learnLog>>

\* the timer of respectRateLimit fires: the request starts
Wake(c) ==
  /\ calls[c].pc = "wait"
  /\ now >= calls[c].wakeAt
  /\ Commit(c, {}, StepOf([calls[c] EXCEPT !.pc = "fetching"], cache, sourcePriorities))
  /\ UNCHANGED <<now, ticks, lastRequestTime, parseRun, learnLog>>

\* fetchFn(source) settles with raw
Response(c, raw) ==
  /\ calls[c].pc = "fetching"
  /\ calls[c].kind # "rescore"
  /\ \E r \in inflight :
       /\ r.call = c
       /\ r.pos = calls[c].idx
       /\ LET lrt == lastRequestAfter(lastRequestTime, r.source, raw, now)
          IN /\ lastRequestTime' = lrt
             /\ Commit(c, {r}, continuation(afterResponse(calls[c], raw, lrt, now),
                                       cache, sourcePriorities, lrt, now))
  /\ UNCHANGED <<now, ticks, parseRun, learnLog>>

\* getSample(dataType, 5) settles with sample
SampleResponse(c, sample) ==
  /\ calls[c].pc = "fetching"
  /\ calls[c].kind = "rescore"
  /\ \E r \in inflight :
       /\ r.call = c
       /\ r.pos = calls[c].idx
       /\ LET lrt == lastRequestAfterSample(lastRequestTime, r.source, sample, now)
          IN /\ lastRequestTime' = lrt
             /\ Commit(c, {r}, rescoreAfterResponse(calls[c], sample, cache,
                                                    sourcePriorities, lrt, now))
  /\ UNCHANGED <<now, ticks, parseRun, learnLog>>

\* the answer went out (res.json): the operation is over
Return(c) ==
  /\ calls[c].pc = "done"
  /\ calls' = [calls EXCEPT ![c] = [IdleCall EXCEPT !.pc = "closed"]]
  /\ UNCHANGED <<now, ticks, lastRequestTime, sourcePriorities, cache, inflight, lastIssued, parseRun, parsers, dataTypes, learnLog>>

Tick(d) ==
  /\ ticks < MaxTicks
  /\ now' = now + d
  /\ ticks' = ticks + 1
  /\ UNCHANGED <<lastRequestTime, sourcePriorities, cache, calls, inflight, lastIssued, parseRun, parsers, dataTypes, learnLog>>

\* parseData(dataType, rawData) runs: it throws, or returns the parsed list
ParseStep ==
  /\ parseRun # NoParseRun
  /\ ~parseRun.done
  /\ parseRun' =
       IF parseThrows(parseRun.dataType, dataArray(parseRun.raw))
       THEN [parseRun EXCEPT !.done = TRUE, !.threw = TRUE]
       ELSE [parseRun EXCEPT !.done = TRUE,
                             !.output = parseData(parseRun.dataType, dataArray(parseRun.raw))]
  /\ UNCHANGED <<now, ticks, lastRequestTime, sourcePriorities, cache, calls, inflight,
                 lastIssued, parsers, dataTypes, learnLog>>

\* learnParserForNewDataType(dataType, sampleData) runs and returns
Learn(dataType, sampleData) ==
  /\ Len(learnLog) < MaxLearns
  /\ ~learnThrows(sampleData)
  /\ parsers' = registryAfterLearn(parsers, dataType, sampleData)
  /\ learnLog' = Append(learnLog, [dataType |-> dataType, sampleData |-> sampleData,
                                   fieldTypes |-> inferredTypes(sampleData),
                                   parser |-> learnResult(parsers, dataType, sampleData)])
  /\ UNCHANGED <<now, ticks, lastRequestTime, sourcePriorities, cache, calls, inflight,
                 lastIssued, parseRun, dataTypes>>

\* time passes while a timer of respectRateLimit is pending
TimerTick(d) ==
  /\ \E c \in Calls : calls[c].pc = "wait" /\ now < calls[c].wakeAt
  /\ now' = now + d
  /\ UNCHANGED <<ticks, lastRequestTime, sourcePriorities, cache, calls, inflight, lastIssued,
                 parseRun, parsers, dataTypes, learnLog>>

Pending(d) == calls[d].pc \notin {"idle", "closed"}

\* no operation is pending
Quiet == \A d \in Calls : ~Pending(d)

\* at most one operation is pending: one more makes a pair of overlapping
\* operations
Pairwise == \A d, e \in Calls : Pending(d) /\ Pending(e) => d = e

\* callers of the fetch orchestrator, overlapping two at a time, on the time
\* scale of the rate limits
Next ==
  \/ \E c \in Calls, t \in AllTypes : Pairwise /\ StartFetch(c, t)
  \/ \E c \in Calls : Wake(c)
  \/ \E c \in Calls, raw \in RawOutcomes : Response(c, raw)
  \/ \E c \in Calls : Return(c)
  \/ \E d \in ShortSteps : Tick(d)

Spec == Init /\ [][Next]_vars

\* the cache-aware operations one after the other, on the time scale of the
\* cache lifetimes
NextCache ==
  \/ \E c \in Calls, t \in StaticTypes : Quiet /\ StartHandler(c, t)
  \/ \E c \in Calls, types \in UpdateLists, discovered \in DiscoveredLists :
       Quiet /\ StartUpdate(c, types, discovered)
  \/ ClearCache
  \/ \E c \in Calls : Wake(c)
  \/ \E c \in Calls, raw \in RawOutcomes : Response(c, raw)
  \/ \E c \in Calls : Return(c)
  \/ \E d \in LongSteps : Tick(d)

SpecCache == Init /\ [][NextCache]_vars

\* overlapping requests to the per-type handlers
NextRace ==
  \/ \E c \in Calls, t \in StaticTypes : Pairwise /\ StartHandler(c, t)
  \/ \E c \in Calls : Wake(c)
  \/ \E c \in Calls, raw \in RawOutcomes : Response(c, raw)
  \/ \E c \in Calls : Return(c)
  \/ \E d \in ShortSteps : Tick(d)

SpecRace == Init /\ [][NextRace]_vars

\* the priority updater next to a caller of the fetch orchestrator
NextRescore ==
  \/ \E c \in Calls : Pairwise /\ StartRescore(c)
  \/ \E c \in Calls : Quiet /\ StartFetch(c, "cards")
  \/ \E c \in Calls : Wake(c)
  \/ \E c \in Calls, raw \in RawOutcomes : Response(c, raw)
  \/ \E c \in Calls, sample \in SampleOutcomes : SampleResponse(c, sample)
  \/ \E c \in Calls : Return(c)
  \/ \E d \in ShortSteps : Tick(d)

SpecRescore == Init /\ [][NextRescore]_vars

\* the priority updater on its own, one run after the other
NextScore ==
  \/ \E c \in Calls : Quiet /\ StartRescore(c)
  \/ \E c \in Calls : Wake(c)
  \/ \E c \in Calls, sample \in RankSamples : SampleResponse(c, sample)
  \/ \E c \in Calls : Return(c)
  \/ \E d \in ShortSteps : Tick(d)

SpecScore == Init /\ [][NextScore]_vars

\* the priority updater on its own; getSample rejects, or gives no record, a
\* record of version 1, or a record without a time stamp whose version is -1
NextAnswer ==
  \/ \E c \in Calls : Quiet /\ StartRescore(c)
  \/ \E c \in Calls : Wake(c)
  \/ \E c \in Calls, sample \in {SampleThrow, SampleList(<<>>), SampleV1,
                                  SampleList(<<SampleItem(0, -1, 3)>>)} :
        SampleResponse(c, sample)
  \/ \E c \in Calls : Return(c)
  \/ \E d \in ShortSteps : Tick(d)

SpecAnswer == Init /\ [][NextAnswer]_vars

\* the callers of the fetch orchestrator one after the other, with sources
\* that answer with values of every shape: a rejection, null, an empty list,
\* one record that is not in a list, a list
NextWrap ==
  \/ \E c \in Calls, t \in StaticTypes : Quiet /\ StartHandler(c, t)
  \/ \E c \in Calls : Quiet /\ StartFetch(c, "cards")
  \/ \E c \in Calls, types \in UpdateLists : Quiet /\ StartUpdate(c, types, <<>>)
  \/ \E c \in Calls : Wake(c)
  \/ \E c \in Calls, raw \in {RawThrow, RawFalsy, RawArray(<<>>), RawObject(GoodItem),
                            RawArray(<<GoodItem>>)} :
        Response(c, raw)
  \/ \E c \in Calls : Return(c)
  \/ \E d \in LongSteps : Tick(d)

SpecWrap == Init /\ [][NextWrap]_vars

\* a fetch of cards and the priority updater side by side, one of each at a
\* time; a source rejects or answers
NextSwap ==
  \/ \E c \in Calls :
       (\A d \in Calls : Pending(d) => calls[d].kind # "fetch") /\ StartFetch(c, "cards")
  \/ \E c \in Calls :
       (\A d \in Calls : Pending(d) => calls[d].kind # "rescore") /\ StartRescore(c)
  \/ \E c \in Calls : Wake(c)
  \/ \E c \in Calls, raw \in {RawThrow, RawArray(<<GoodItem>>)} : Response(c, raw)
  \/ \E c \in Calls, sample \in {SampleThrow, SampleV1} : SampleResponse(c, sample)
  \/ \E c \in Calls : Return(c)
  \/ \E d \in ShortSteps : Tick(d)

SpecSwap == Init /\ [][NextSwap]_vars

\* fetches of cards, overlapping two at a time; the clock runs while a
\* timer is pending
NextLive ==
  \/ \E c \in Calls : Pairwise /\ StartFetch(c, "cards")
  \/ \E c \in Calls : Wake(c)
  \/ \E c \in Calls, raw \in RawOutcomes : Response(c, raw)
  \/ \E c \in Calls : Return(c)
  \/ \E d \in ShortSteps : TimerTick(d)

\* timers fire, and every fetchFn that was called settles
SpecLive ==
  /\ Init
  /\ [][NextLive]_vars
  /\ WF_vars(\E d \in ShortSteps : TimerTick(d))
  /\ \A c \in Calls : WF_vars(Wake(c))
  /\ \A c \in Calls : WF_vars(\E raw \in RawOutcomes : Response(c, raw))

\* updateFromWiki is called with these lists
DiscoverUpdateLists == {<<>>, <<UnparsedType>>, <<"cards">>}

\* what getAvailableDataTypes gives when the sources list a type that has no
\* parser
DiscoverLists == {<<UnparsedType>>, <<UnknownType, UnparsedType>>, <<"cards">>}

\* what getSample and the fetch functions settle with
DiscoverRaw ==
  {RawThrow, RawArray(<<NullItem>>), RawArray(<<SampleA, SampleB>>)}

\* every operation but the rescoring of the priority lists is a read path;
\* here they run one after the other, and the sources list new data types
NextDiscover ==
  \/ \E c \in Calls, types \in DiscoverUpdateLists, discovered \in DiscoverLists :
       Quiet /\ StartUpdate(c, types, discovered)
  \/ \E c \in Calls : Quiet /\ StartHandler(c, UnparsedType)
  \/ \E c \in Calls : Quiet /\ StartFetch(c, UnparsedType)
  \/ \E c \in Calls : Quiet /\ StartRescore(c)
  \/ Quiet /\ ClearCache
  \/ \E c \in Calls : Wake(c)
  \/ \E c \in Calls, raw \in DiscoverRaw : Response(c, raw)
  \/ \E c \in Calls, sample \in SampleOutcomes : SampleResponse(c, sample)
  \/ \E c \in Calls : Return(c)
  \/ \E d \in ShortSteps : Tick(d)

SpecDiscover == Init /\ [][NextDiscover]_vars

\* parseData on its own, on every input of ParseInputs for every data type
InitParse ==
  /\ InitState
  /\ parseRun \in {ParseRun(dataType, raw) : dataType \in AllTypes, raw \in ParseInputs}

NextParse == ParseStep

SpecParse == InitParse /\ [][NextParse]_vars

\* learnParserForNewDataType on its own, called again and again
NextLearn == \E dataType \in LearnTypes, sampleData \in LearnSamples : Learn(dataType, sampleData)

SpecLearn == Init /\ [][NextLearn]_vars

(***************************************************************************)
(* Properties of getDataFromPrioritizedSources                             *)
(***************************************************************************)
\* the source answered with a result that is neither a rejection nor empty
Answered(attempt) == attempt.raw.kind # "throw" /\ ~isEmptyRaw(attempt.raw)

FetchDone(c) == calls[c].kind = "fetch" /\ calls[c].pc = "done"

\* C1: a call returns the result of the first source, in priority order,
\* that answered with a non-empty, non-throwing result, and it invokes no
\* source after that one
C1_FirstSuccessWins ==
  \A c \in Calls :
    LET a == calls[c].attempts
    IN /\ \A i \in 1..Len(a) : a[i].source = calls[c].priorities[i]
       /\ \A i \in 1..(Len(a) - 1) : ~Answered(a[i])
       /\ (FetchDone(c) /\ Len(a) > 0 /\ Answered(a[Len(a)])) =>
            /\ calls[c].result.status = "ok"
            /\ calls[c].result.source = a[Len(a)].source
            /\ calls[c].result.data = parseData(calls[c].dataType, dataArray(a[Len(a)].raw))
       /\ (FetchDone(c) /\ calls[c].result.status = "ok") =>
            Len(a) > 0 /\ Answered(a[Len(a)])

\* C2: within one call the attempts are sequential, in the order of the
\* priority list: at most one request of the call is in flight, it is the
\* request to the position right after the attempts that have finished, and
\* each of those finished with a throw or an empty result
C2_SequentialAttempts ==
  \A c \in Calls :
    /\ Cardinality({r \in inflight : r.call = c}) <= 1
    /\ \A r \in inflight :
         r.call = c =>
           /\ r.pos = Len(calls[c].attempts) + 1
           /\ r.source = calls[c].priorities[r.pos]
           /\ \A i \in 1..Len(calls[c].attempts) :
                /\ calls[c].attempts[i].source = calls[c].priorities[i]
                /\ calls[c].attempts[i].outcome \in {"throw", "empty", "parse_error"}

\* a call has its request to the second source in flight, after the first
\* source threw, while the other call has a request in flight too
C2_Witness ==
  \E c, d \in Calls :
    /\ c # d
    /\ \E r \in inflight : r.call = c /\ r.pos = 2
    /\ \E r \in inflight : r.call = d
    /\ Len(calls[c].attempts) = 1
    /\ calls[c].attempts[1].outcome = "throw"

\* C3: two successive requests to the same source start at least
\* rateLimitMs(source) apart, whatever the earlier one ended with and
\* whichever calls issued them
C3_RateLimitSpacing ==
  [][\A s \in Sources :
       ((\E r \in inflight' : r \notin inflight /\ r.source = s) /\ lastIssued[s] # -1)
         => now - lastIssued[s] >= rateLimitMs(s)]_vars

\* C4: when a request to a source settles, lastRequestTime of that source
\* becomes the current time, whatever the request ended with
C4_LastRequestTimeRecorded ==
  [][\A r \in inflight : r \notin inflight' => lastRequestTime'[r.source] = now]_vars

\* C5: a call fails with the exhausted error exactly when every source of the
\* list was attempted and each threw or returned an empty result; the error
\* carries the last error of the call when a source threw, and none otherwise
C5_ExhaustedExactly ==
  \A c \in Calls :
    (FetchDone(c) /\ Len(calls[c].priorities) > 0) =>
      LET a == calls[c].attempts
          threw == {i \in 1..Len(a) : a[i].raw.kind = "throw"}
          last == CHOOSE i \in threw : \A j \in threw : j <= i
      IN /\ calls[c].result.error = "exhausted" <=>
              (Len(a) = Len(calls[c].priorities) /\ \A i \in 1..Len(a) : ~Answered(a[i]))
         /\ calls[c].result.error = "exhausted" =>
              calls[c].result.cause = IF threw = {} THEN "none"
                                      ELSE "fetch:" \o a[last].source

\* C6: a call for a type without a priority list fails with the configuration
\* error in the step that starts it, and only such a call does: no source is
\* invoked, nothing waits, and lastRequestTime, the priority lists and the
\* cache stay as they are
C6_ConfigErrorImmediate ==
  [][\A c \in Calls :
       (calls[c].pc = "idle" /\ calls'[c].kind = "fetch") =>
         IF Len(sourcePriorities[calls'[c].dataType]) = 0
         THEN /\ calls'[c].pc = "done"
              /\ calls'[c].result.status = "error"
              /\ calls'[c].result.error = "config"
              /\ calls'[c].attempts = <<>>
              /\ inflight' = inflight
              /\ lastIssued' = lastIssued
              /\ lastRequestTime' = lastRequestTime
              /\ sourcePriorities' = sourcePriorities
              /\ cache' = cache
         ELSE /\ calls'[c].pc \in {"wait", "fetching"}
              /\ calls'[c].result.error # "config"]_vars

\* a call for the type that has no priority list has failed
C6_Witness ==
  \E c \in Calls :
    /\ FetchDone(c)
    /\ calls[c].dataType = UnknownType
    /\ calls[c].result.error = "config"

\* C7: a returned result carries the tag of the source whose fetchFn call
\* gave its records
C7_TaggedWithProducer ==
  \A c \in Calls :
    (FetchDone(c) /\ calls[c].result.status = "ok") =>
      LET a == calls[c].attempts
      IN /\ Len(a) > 0
         /\ a[Len(a)].outcome = "ok"
         /\ calls[c].result.source = a[Len(a)].source
         /\ calls[c].result.data = parseData(calls[c].dataType, dataArray(a[Len(a)].raw))

\* cards, list <<fandom, dokkanInfo>>: fandom threw, dokkanInfo returned a
\* record, and the result is tagged dokkanInfo
C7_Witness ==
  \E c \in Calls :
    /\ FetchDone(c)
    /\ calls[c].dataType = "cards"
    /\ calls[c].priorities = <<"fandom", "dokkanInfo">>
    /\ Len(calls[c].attempts) = 2
    /\ calls[c].attempts[1].outcome = "throw"
    /\ calls[c].attempts[2].raw = RawArray(<<GoodItem>>)
    /\ calls[c].result.source = "dokkanInfo"

(***************************************************************************)
(* Properties of the cache-aware operations                                *)
(***************************************************************************)
\* the entry the reader found counts as fresh under the cacheTtl configured
\* for the type
WithinConfiguredTtl(dataType, age) == age >= 0 /\ age < cacheTtl(dataType)

\* C8: on every read path (the per-type handlers, the loop of
\* updateFromWiki) a cached entry is served if and only if its age is below
\* the cacheTtl configured for the type
C8_FreshIffWithinConfiguredTtl ==
  \A c \in Calls :
    calls[c].pc = "done" =>
      /\ calls[c].kind = "handler" =>
           (calls[c].result.fromCache <=> WithinConfiguredTtl(calls[c].dataType, calls[c].age))
      /\ calls[c].kind = "update" =>
           \A i \in 1..Len(calls[c].results) :
             calls[c].results[i].fromCache <=>
               WithinConfiguredTtl(calls[c].results[i].dataType, calls[c].results[i].age)

\* C9: a handler call that comes less than cacheTtl after the refresh that
\* wrote the entry is answered from the cache without a request to any
\* source, and a call that comes cacheTtl or more after it fetches again
C9_OneFetchPerTtlWindow ==
  \A c \in Calls :
    (calls[c].kind = "handler" /\ calls[c].pc = "done" /\ calls[c].age >= 0) =>
      IF calls[c].age < cacheTtl(calls[c].dataType)
      THEN calls[c].result.fromCache /\ calls[c].attempts = <<>>
      ELSE ~calls[c].result.fromCache /\ Len(calls[c].attempts) > 0

\* call c is between its cache miss for dataType and the end of its fetch
Refreshing(c, dataType) ==
  /\ calls[c].kind \in {"handler", "update"}
  /\ calls[c].pc \in {"wait", "fetching"}
  /\ calls[c].dataType = dataType

\* C10: at most one upstream fetch per data type is under way at any time
C10_SingleFlightPerType ==
  \A dataType \in AllTypes :
    \A c, d \in Calls : (Refreshing(c, dataType) /\ Refreshing(d, dataType)) => c = d

(***************************************************************************)
(* Fetches of different data types side by side                            *)
(***************************************************************************)
\* the sources call d has yet to run respectRateLimit for
SourcesAhead(d) ==
  {calls[d].priorities[i] : i \in (calls[d].idx + 1)..Len(calls[d].priorities)}

\* C11 as stated: a fetch for one type writes no rate-limit timestamp that a
\* fetch for another type, under way at the same time, reads
C11_DisjointRateLimitState ==
  [][\A r \in inflight : \A d \in Calls :
       (/\ r \notin inflight'
        /\ lastRequestTime'[r.source] # lastRequestTime[r.source]
        /\ d # r.call
        /\ calls[d].pc \in {"wait", "fetching"}
        /\ calls[d].dataType # r.dataType)
         => r.source \notin SourcesAhead(d)]_vars

\* C11, amended: the priority state of two types is disjoint and the
\* rate-limit state is per source.  When a request of a fetch settles, no
\* priority list changes, the fetch goes on with the list of its own type,
\* and of the rate-limit timestamps only the one of the source that was
\* asked can change; that timestamp is shared by the fetches of every type
C11_PrioritiesPerTypeTimestampsPerSource ==
  [][\A r \in inflight :
       r \notin inflight' =>
         /\ sourcePriorities' = sourcePriorities
         /\ calls'[r.call].dataType = r.dataType
         /\ calls'[r.call].priorities = sourcePriorities[r.dataType]
         /\ \A s \in Sources \ {r.source} : lastRequestTime'[s] = lastRequestTime[s]]_vars

\* a fetch of events waits for fandom because of the answer fandom gave to a
\* fetch of cards that is still under way: events has not asked fandom yet
C11_Witness ==
  \E c, d \in Calls :
    /\ calls[c].dataType = "cards" /\ calls[c].pc = "fetching"
    /\ Len(calls[c].attempts) = 1
    /\ calls[c].attempts[1].source = "fandom"
    /\ calls[c].attempts[1].outcome = "empty"
    /\ calls[d].dataType = "events" /\ calls[d].pc = "wait"
    /\ calls[d].priorities[calls[d].idx] = "fandom"
    /\ \A i \in 1..Len(calls[d].attempts) : calls[d].attempts[i].source # "fandom"
    /\ calls[d].wakeAt = lastRequestTime["fandom"] + rateLimitMs("fandom")

(***************************************************************************)
(* Properties of updateFromWiki                                            *)
(***************************************************************************)
\* C12: updateFromWiki processes every requested type even when the fetch
\* for one of them fails: its answer holds one entry per requested type, in
\* the order of the request
C12_BatchContinuesPastFailures ==
  \A c \in Calls :
    (calls[c].kind = "update" /\ calls[c].pc = "done") =>
      /\ Len(calls[c].results) = Len(calls[c].requested)
      /\ \A i \in 1..Len(calls[c].results) :
           calls[c].results[i].dataType = calls[c].requested[i]

(***************************************************************************)
(* Properties of the cache store                                           *)
(***************************************************************************)
\* call c ends in this step with a list it fetched from a source
FetchedNow(c) ==
  /\ calls[c].pc # "done" /\ calls'[c].pc = "done"
  /\ calls'[c].kind = "handler"
  /\ calls'[c].result.status = "ok" /\ ~calls'[c].result.fromCache

\* C13: what the store gives back for a key right after a record was stored
\* under it is deep-equal to the record that was stored
C13_CacheRoundTrip ==
  [][\A c \in Calls :
       FetchedNow(c) =>
         cache'[calls'[c].dataType] = handlerEntry(calls'[c].result, now)]_vars

\* call c, a request to the handler of the data type of key, starts in this
\* step and finds no file under the key
StartsOnMissingKey(c, key) ==
  /\ calls[c].pc = "idle" /\ calls'[c].pc # "idle"
  /\ calls'[c].kind = "handler" /\ calls'[c].dataType = key
  /\ ~cache[key].present

\* C14: the read of a key that is not in the store gives null and throws
\* nothing: the reader goes on to fetch, and the store stays as it is
C14_MissingKeyIsNotFound ==
  [][\A c \in Calls, key \in CacheKeys :
       StartsOnMissingKey(c, key) =>
         /\ getCachedData(cache, key) = NoEntry
         /\ calls'[c].age = -1
         /\ calls'[c].pc \in {"wait", "fetching"}
         /\ cache' = cache]_vars

\* getEvents was called while the store held no events file, and is fetching
C14_Witness ==
  \E c \in Calls :
    /\ calls[c].kind = "handler" /\ calls[c].dataType = "events"
    /\ calls[c].pc = "fetching" /\ calls[c].attempts = <<>>
    /\ calls[c].age = -1
    /\ ~cache["events"].present

\* C15: once clearCache has run the store holds no key, and a handler called
\* on the empty store answers with a fetched list and never from the cache
C15_ClearAllRemovesEveryKey ==
  [][/\ (\E k \in CacheKeys : cache[k].present /\ ~cache'[k].present) =>
          \A k \in CacheKeys : getCachedData(cache', k) = NoEntry
     /\ \A c \in Calls, key \in CacheKeys :
          StartsOnMissingKey(c, key) => ~calls'[c].result.fromCache]_vars

\* updateFromWiki has just stored the lists of cards and of events, and
\* clearCache has run since: the store holds no key
C15_Witness ==
  \E c \in Calls :
    /\ calls[c].kind = "update" /\ calls[c].pc = "done"
    /\ Len(calls[c].results) = 2
    /\ \A i \in 1..2 : ~calls[c].results[i].fromCache
    /\ \A k \in CacheKeys : ~cache[k].present

\* the step stores the list that the request r, settled in it, was answered
\* with: the fetch of r.call for the key has succeeded
StoredAfterFetch(r, key) ==
  /\ r \in inflight /\ r \notin inflight'
  /\ r.dataType = key
  /\ cache'[key].present /\ cache'[key].timestamp = now
  /\ Len(cache'[key].data) > 0
  /\ IF r.kind = "handler"
     THEN calls'[r.call].result.status = "ok" /\ ~calls'[r.call].result.fromCache
     ELSE \E i \in (Len(calls[r.call].results) + 1)..Len(calls'[r.call].results) :
            /\ calls'[r.call].results[i].dataType = key
            /\ ~calls'[r.call].results[i].fromCache
            /\ calls'[r.call].results[i].count = Len(cache'[key].data)

\* C16: a cache entry is written only by the step in which a fetch for its
\* key succeeds and is removed only by clearCache, which removes all; a call
\* whose fetch fails leaves every entry as it was
C16_WrittenOnlyAfterSuccess ==
  [][/\ \A key \in CacheKeys :
          cache'[key] # cache[key] =>
            IF cache'[key].present
            THEN \E r \in inflight : StoredAfterFetch(r, key)
            ELSE calls' = calls /\ \A k \in CacheKeys : ~cache'[k].present
     /\ \A c \in Calls :
          (/\ calls[c].pc \in {"idle", "wait", "fetching"}
           /\ calls'[c].pc = "done"
           /\ calls'[c].result.status = "error") => cache' = cache]_vars

\* getLatestCards found its entry too old, every source failed, and the old
\* entry is still in the store
C16_Witness ==
  \E c \in Calls :
    /\ calls[c].kind = "handler" /\ calls[c].dataType = "cards"
    /\ calls[c].pc = "done"
    /\ calls[c].result.error = "exhausted"
    /\ calls[c].age >= handlerTtl("cards")
    /\ cache["cards"].present
    /\ now - cache["cards"].timestamp = calls[c].age

\* C17: every record written under a data type key holds data, a timestamp
\* that is the time of the write, and a source that is the source whose
\* answer the data came from
C17_RecordHasDataTimestampSource ==
  [][\A key \in CacheKeys :
       (cache'[key] # cache[key] /\ cache'[key].present) =>
         /\ cache'[key].timestamp = now
         /\ \E r \in inflight :
              /\ r \notin inflight'
              /\ r.dataType = key
              /\ cache'[key].source = r.source]_vars

(***************************************************************************)
(* Properties of parseData                                                 *)
(***************************************************************************)
\* the list parseData maps over
ParseInput == dataArray(parseRun.raw)

RequiredFields == SeqToSet(parserConfig(parseRun.dataType).requiredFields)

\* C18: parseData throws on no raw record, and in every record it returns
\* each required field of the data type is present
C18_ParseIsTotal ==
  parseRun.done =>
    /\ ~parseRun.threw
    /\ \A i \in 1..Len(parseRun.output) : \A fld \in RequiredFields :
         /\ parseRun.output[i].kind = "obj"
         /\ parseRun.output[i].f[fld] # Undef

\* C19: parseData returns as many records as it was given, the i-th made
\* from the i-th raw record, and a malformed record in the list does not make
\* the call fail
C19_NoRecordLostNoBatchFailure ==
  parseRun.done =>
    /\ ~parseRun.threw
    /\ Len(parseRun.output) = Len(ParseInput)
    /\ \A i \in 1..Len(ParseInput) :
         parseRun.output[i] = parseItem(parserConfig(parseRun.dataType), ParseInput[i])

\* the value of a field when the transformations start: the raw value, or the
\* default of a required field the raw record does not have
ValueBeforeTransform(item, fld) ==
  IF item.f[fld] = Undef /\ fld \in RequiredFields
  THEN getDefaultValueForField(fld) ELSE item.f[fld]

\* C20: in every record parseData returns, a field whose transformation
\* throws keeps the value it had, a field with no transformation is passed
\* through, and every other field holds the result of its transformation,
\* whether or not the transformation of another field of the record threw
C20_FailedTransformationKeepsValue ==
  (parseRun.done /\ ~parseRun.threw) =>
    \A i \in 1..Len(ParseInput) :
      ParseInput[i].kind = "obj" =>
        \A fld \in Fields :
          LET name == parserConfig(parseRun.dataType).transformations[fld]
              value == ValueBeforeTransform(ParseInput[i], fld)
              out == parseRun.output[i].f[fld]
          IN CASE name = "none" \/ value = Undef -> out = value
               [] transformThrows(name, value) -> out = value
               [] OTHER -> out = transform(name, value)

\* a cards record was parsed whose name made String(value) throw: the name is
\* as it was, and id and atk of the same record are transformed
C20_Witness ==
  /\ parseRun.done /\ ~parseRun.threw
  /\ parseRun.dataType = "cards"
  /\ ParseInput = <<GoodItem, MixedItem>>
  /\ parseRun.output[2].f["name"] = "o:bare"
  /\ parseRun.output[2].f["id"] = "s:7"
  /\ parseRun.output[2].f["atk"] = "n:12"
  /\ parseRun.output[2].f["type"] = "s:AGL"
  /\ parseRun.output[1].f["name"] = "s:X"

(***************************************************************************)
(* Parser learning and the parser registry                                 *)
(***************************************************************************)
\* the calls of learnParserForNewDataType so far
Learned == 1..Len(learnLog)

\* the number of samples of a call that carry the field
PresentIn(sampleData, fld) ==
  Cardinality({k \in 1..Len(sampleData) : sampleData[k].f[fld] # Undef})

\* the field names that occur in some sample
SampleFields(sampleData) == {fld \in Fields : PresentIn(sampleData, fld) > 0}

\* C21: a learned parser requires a field exactly when the field occurs in
\* the samples and is present in at least 75% of them
C21_RequiredIffInThreeQuarters ==
  \A i \in Learned :
    learnLog[i].sampleData # <<>> =>
      \A fld \in Fields :
        fld \in SeqToSet(learnLog[i].parser.requiredFields) <=>
          /\ fld \in SampleFields(learnLog[i].sampleData)
          /\ 4 * PresentIn(learnLog[i].sampleData, fld) >= 3 * Len(learnLog[i].sampleData)

\* a parser learned from four samples: startDate is in exactly three of them
\* and is required, atk is in one of them and is not
C21_Witness ==
  \E i \in Learned :
    /\ learnLog[i].sampleData = <<SampleA, SampleA, SampleA, SampleB>>
    /\ "startDate" \in SeqToSet(learnLog[i].parser.requiredFields)
    /\ "atk" \notin SeqToSet(learnLog[i].parser.requiredFields)
    /\ parsers[learnLog[i].dataType] = learnLog[i].parser

\* the first value of the field in the samples, in sample order
RECURSIVE FirstValue(_, _)
FirstValue(sampleData, fld) ==
  IF sampleData = <<>> THEN Undef
  ELSE IF Head(sampleData).f[fld] # Undef THEN Head(sampleData).f[fld]
  ELSE FirstValue(Tail(sampleData), fld)

IsNumber(value) == value \in {"n:7", "n:0"}
IsBoolean(value) == value \in {"b:true", "b:false"}
IsDate(value) == value \in {"d:now", "d:2024-01-01", "d:Invalid Date", "s:2024-01-01", "s:12"}
IsArray(value) == value = "a:[]"
IsObject(value) == value \in {"o:bare", "o:{}"}

\* number, boolean, date, array, object in this priority, else string
TypeByPriority(value) ==
  IF IsNumber(value) THEN "number"
  ELSE IF IsBoolean(value) THEN "boolean"
  ELSE IF IsDate(value) THEN "date"
  ELSE IF IsArray(value) THEN "array"
  ELSE IF IsObject(value) THEN "object"
  ELSE "string"

\* C22: the type of a field is the type of its first non-absent value in
\* sample order, whatever the later samples hold
C22_TypeFromFirstValue ==
  \A i \in Learned :
    learnLog[i].sampleData # <<>> =>
      \A fld \in SampleFields(learnLog[i].sampleData) :
        learnLog[i].fieldTypes[fld] = TypeByPriority(FirstValue(learnLog[i].sampleData, fld))

\* id is a number in the first sample and a string in the second: it is
\* typed number; startDate is a date string in the first sample only
C22_Witness ==
  \E i \in Learned :
    /\ learnLog[i].sampleData = <<SampleA, SampleB>>
    /\ learnLog[i].fieldTypes["id"] = "number"
    /\ learnLog[i].fieldTypes["startDate"] = "date"
    /\ learnLog[i].fieldTypes["atk"] = "array"
    /\ learnLog[i].parser.transformations["id"] = "floatOrZero"

C24_LearnedParserIsRegistered ==
  Len(learnLog) > 0 =>
    getParser(parsers, learnLog[Len(learnLog)].dataType) = learnLog[Len(learnLog)].parser

\* the last call for the type that registered a parser, 0 when there is none
LastRegistration(dataType) ==
  LET S == {i \in Learned : learnLog[i].dataType = dataType /\ learnLog[i].sampleData # <<>>}
  IN  IF S = {} THEN 0 ELSE CHOOSE i \in S : \A j \in S : j <= i

ScoredRuns == {ci \in Calls \X (1..Len(DataTypeOrder)) : ci[2] <= Len(calls[ci[1]].scored)}

ScoredRun(ci) == calls[ci[1]].scored[ci[2]]

\* source a stands before source b in the list
Before(list, a, b) ==
  \E j \in 1..Len(list) : \E k \in 1..Len(list) : j < k /\ list[j] = a /\ list[k] = b

Answered2(sample) == sample.kind = "array" /\ Len(sample.items) > 0

\* the two samples have the same records but for the version, which is higher
\* in x
HigherVersionOnly(x, y) ==
  /\ Answered2(x) /\ Answered2(y)
  /\ Len(x.items) = Len(y.items)
  /\ \A k \in 1..Len(x.items) :
       /\ x.items[k].updated = y.items[k].updated
       /\ x.items[k].keys = y.items[k].keys
       /\ x.items[k].version > y.items[k].version

C27_TiesKeepPriorOrder ==
  \A ci \in ScoredRuns :
    \A a \in Sources : \A b \in Sources :
      ( /\ ScoredRun(ci).samples[a].kind = "array"
        /\ ScoredRun(ci).samples[b].kind = "array"
        /\ ScoredRun(ci).freshness[a] = ScoredRun(ci).freshness[b]
        /\ Before(ScoredRun(ci).prior, a, b) )
      => Before(ScoredRun(ci).list, a, b)

\* x has the higher average of fld over its records
HigherAverage(x, y, fld) ==
  SumOf(x.items, fld) * Len(y.items) > SumOf(y.items, fld) * Len(x.items)

SameAverage(x, y, fld) ==
  SumOf(x.items, fld) * Len(y.items) = SumOf(y.items, fld) * Len(x.items)

\* C28: of two sources that gave a sample, the one with the higher average
\* version stands first whatever the time stamps and the numbers of fields,
\* and with equal versions the one with the later average time stamp stands
\* first whatever the numbers of fields
C28_VersionThenTimestampThenFields ==
  \A ci \in ScoredRuns :
    \A a \in Sources : \A b \in Sources :
      (Answered2(ScoredRun(ci).samples[a]) /\ Answered2(ScoredRun(ci).samples[b])) =>
        /\ HigherAverage(ScoredRun(ci).samples[a], ScoredRun(ci).samples[b], "version")
             => Before(ScoredRun(ci).list, a, b)
        /\ ( /\ SameAverage(ScoredRun(ci).samples[a], ScoredRun(ci).samples[b], "version")
             /\ HigherAverage(ScoredRun(ci).samples[a], ScoredRun(ci).samples[b], "updated") )
             => Before(ScoredRun(ci).list, a, b)

(***************************************************************************)
(* Frame conditions                                                        *)
(***************************************************************************)
\* the step ends an iteration of updateSourcePriorities for the data type
RescoringStepFor(dataType) ==
  \E c \in Calls :
    /\ calls[c].kind = "rescore"
    /\ Len(calls'[c].scored) = Len(calls[c].scored) + 1
    /\ calls'[c].scored[Len(calls'[c].scored)].dataType = dataType

\* C29: a priority list changes only in a step of updateSourcePriorities that
\* ends the iteration for its type; fetches, handlers, updateFromWiki with
\* its parser discovery and clearCache leave every list as it is
C29_OnlyRescoringChangesPriorities ==
  [][\A dataType \in KnownTypes :
       sourcePriorities'[dataType] # sourcePriorities[dataType] => RescoringStepFor(dataType)]_vars

\* updateFromWiki is over: it learned a parser for missions from a sample and
\* then fetched missions, where the first source of the list failed and the
\* second answered; the lists are those of the constructor
C29_Witness ==
  \E c \in Calls :
    /\ calls[c].kind = "update"
    /\ calls[c].pc = "done"
    /\ Len(calls[c].registered) = 1
    /\ Len(calls[c].results) = 1
    /\ calls[c].results[1].dataType = UnparsedType
    /\ calls[c].results[1].source = "fandom"
    /\ sourcePriorities[UnparsedType] = <<"dokkanInfo", "fandom">>
    /\ sourcePriorities["cards"] = <<"fandom", "dokkanInfo">>
    /\ sourcePriorities["events"] = <<"dokkanInfo", "fandom">>

\* C30: the registered parsers and the configured data types are those of
\* the configuration whatever handlers and updates have run
C30_ReadPathsRegisterNothing ==
  /\ parsers = InitialParsers
  /\ dataTypes = InitialDataTypes

(***************************************************************************)
(* updateFromWiki that fails part of the way                               *)
(***************************************************************************)
\* the data types updateFromWiki went through before the one at the head of
\* todo
ProcessedBefore(cr) == SubSeq(cr.requested, 1, Len(cr.requested) - Len(cr.todo))

\* in this step updateFromWiki of call c ends in its outer catch
UpdateFailsNow(c) ==
  /\ calls[c].kind = "update"
  /\ calls[c].pc # "done"
  /\ calls'[c].pc = "done"
  /\ calls'[c].result.status = "error"

\* a finished read of an entry that was within the cacheTtl of its type was
\* answered from the cache, with no request to a source
ServedWithinTtl ==
  \A c \in Calls :
    calls[c].pc = "done" =>
      /\ (calls[c].kind = "handler" /\ WithinConfiguredTtl(calls[c].dataType, calls[c].age))
           => (calls[c].result.fromCache /\ calls[c].attempts = <<>>)
      /\ calls[c].kind = "update" =>
           \A i \in 1..Len(calls[c].results) :
             WithinConfiguredTtl(calls[c].results[i].dataType, calls[c].results[i].age)
               => calls[c].results[i].fromCache

\* C31: the step in which updateFromWiki fails at a type leaves the entries
\* of the types it went through before as they are, an entry goes away only
\* when clearCache empties the store, and a later read of an entry within
\* the cacheTtl of its type is answered from the cache
C31_PartialUpdateKeepsEntries ==
  [][/\ \A c \in Calls :
          UpdateFailsNow(c) =>
            \A i \in 1..Len(ProcessedBefore(calls'[c])) :
              cache'[ProcessedBefore(calls'[c])[i]] = cache[ProcessedBefore(calls'[c])[i]]
     /\ \A k \in CacheKeys :
          (cache[k].present /\ ~cache'[k].present) => \A j \in CacheKeys : ~cache'[j].present
     /\ ServedWithinTtl']_vars

\* updateFromWiki(['cards', 'events']) wrote cards (the entry names its
\* source, which only updateFromWiki writes) and failed at events, which has
\* no entry; half a cacheTtl later the cards handler is answered from the
\* cache
C31_Witness ==
  \E c \in Calls :
    /\ calls[c].kind = "handler"
    /\ calls[c].pc = "done"
    /\ calls[c].dataType = "cards"
    /\ calls[c].result.fromCache
    /\ calls[c].age = 1800000
    /\ cache["cards"].present
    /\ cache["cards"].source \in Sources
    /\ ~cache["events"].present

(***************************************************************************)
(* The shape of the priority lists                                         *)
(***************************************************************************)
\* the data types of the configuration
ConfiguredTypes == StaticTypes \cup {UnparsedType}

NoSourceTwice(list) ==
  \A j \in 1..Len(list) : \A k \in 1..Len(list) : list[j] = list[k] => j = k

\* C32: the priority list of every configured data type has at least one
\* source, no source twice and configured sources only, and an iteration of
\* updateSourcePriorities in which every sample fetch threw left the list of
\* its type as it found it
C32_ListsStayWellFormed ==
  /\ \A dataType \in ConfiguredTypes :
       /\ Len(sourcePriorities[dataType]) > 0
       /\ NoSourceTwice(sourcePriorities[dataType])
       /\ SeqToSet(sourcePriorities[dataType]) \subseteq Sources
  /\ \A ci \in ScoredRuns :
       (\A s \in Sources : ScoredRun(ci).samples[s].kind = "throw")
         => ScoredRun(ci).list = ScoredRun(ci).prior

\* one run of updateSourcePriorities: for cards both sample fetches threw and
\* the list is the one of the constructor; for events dokkanInfo threw and
\* the list is fandom alone
C32_Witness ==
  \E c \in Calls :
    /\ Len(calls[c].scored) = 2
    /\ \A s \in Sources : calls[c].scored[1].samples[s].kind = "throw"
    /\ calls[c].scored[1].dataType = "cards"
    /\ sourcePriorities["cards"] = <<"fandom", "dokkanInfo">>
    /\ calls[c].scored[2].samples["dokkanInfo"].kind = "throw"
    /\ calls[c].scored[2].samples["fandom"].kind = "array"
    /\ sourcePriorities["events"] = <<"fandom">>

\* C33: a source whose getSample returned is in the list the type has after
\* the iteration
C33_AnsweringSourceStaysListed ==
  \A ci \in ScoredRuns :
    \A s \in Sources :
      ScoredRun(ci).samples[s].kind = "array" => s \in SeqToSet(ScoredRun(ci).list)

(***************************************************************************)
(* What a fetch returns                                                    *)
(***************************************************************************)
\* C34: a list that getDataFromPrioritizedSources returned has at least one
\* record, and so has the data of every cache entry
C34_FetchedListsAreNonEmpty ==
  /\ \A c \in Calls :
       /\ (calls[c].result.status = "ok" /\ calls[c].kind \in {"fetch", "handler"}
             /\ calls[c].pc \in {"returned", "done"})
            => Len(calls[c].result.data) >= 1
       /\ calls[c].kind = "update" =>
            \A i \in 1..Len(calls[c].results) : calls[c].results[i].count >= 1
  /\ \A k \in CacheKeys : cache[k].present => Len(cache[k].data) >= 1

\* the cards handler got one record that was not in a list from the second
\* source, after the first answered with an empty list: the result and the
\* entry it wrote hold that one record
C34_Witness ==
  \E c \in Calls :
    /\ calls[c].kind = "handler"
    /\ calls[c].pc = "done"
    /\ calls[c].dataType = "cards"
    /\ ~calls[c].result.fromCache
    /\ Len(calls[c].attempts) = 2
    /\ calls[c].attempts[1].raw = RawArray(<<>>)
    /\ calls[c].attempts[2].raw = RawObject(GoodItem)
    /\ Len(calls[c].result.data) = 1
    /\ cache["cards"].present
    /\ Len(cache["cards"].data) = 1

(***************************************************************************)
(* Termination of a fetch                                                  *)
(***************************************************************************)
\* call c has asked each source of its list at most once, in list order
OncePerEntry(c) ==
  /\ Len(calls[c].attempts) <= Len(calls[c].priorities)
  /\ \A i \in 1..Len(calls[c].attempts) : calls[c].attempts[i].source = calls[c].priorities[i]
  /\ calls[c].pc \in {"wait", "fetching"} => calls[c].idx = Len(calls[c].attempts) + 1
  /\ Cardinality({r \in inflight : r.call = c}) <= 1

\* C35: a call of getDataFromPrioritizedSources asks each source of its list
\* at most once, and once it is under way it ends, with a result or with an
\* error, when timers fire and every fetchFn settles
C35_OncePerEntryAndEnds ==
  /\ [](\A c \in Calls : calls[c].kind = "fetch" => OncePerEntry(c))
  /\ \A c \in Calls :
       (calls[c].kind = "fetch" /\ calls[c].pc \in {"wait", "fetching"})
         ~> (calls[c].pc \in {"done", "closed"})

\* a fetch is over with an error after every source of its list threw once,
\* and it had to wait for a timer of the rate limit on the way
C35_Witness ==
  \E c \in Calls :
    /\ FetchDone(c)
    /\ calls[c].result.status = "error"
    /\ Len(calls[c].attempts) = 2
    /\ Len(calls[c].priorities) = 2
    /\ now > StartTime

(***************************************************************************)
(* A fetch next to a rescoring                                             *)
(***************************************************************************)
\* C36: a fetch walks the list its type had in the step in which it started:
\* it takes that list then, keeps it whatever is assigned to the type
\* afterwards, and asks its sources in that order
C36_FetchKeepsTheListItStartedWith ==
  [][\A c \in Calls :
       /\ (calls[c].pc = "idle" /\ calls'[c].kind = "fetch")
            => calls'[c].priorities = sourcePriorities[calls'[c].dataType]
       /\ (calls[c].kind = "fetch" /\ calls'[c].kind = "fetch")
            => calls'[c].priorities = calls[c].priorities
       /\ calls'[c].kind = "fetch" =>
            \A i \in 1..Len(calls'[c].attempts) :
              calls'[c].attempts[i].source = calls'[c].priorities[i]]_vars

\* a fetch of cards that started with the list fandom, dokkanInfo has asked
\* fandom and is now asking dokkanInfo, while a rescoring has cut the list of
\* cards down to fandom
C36_Witness ==
  \E c \in Calls :
    /\ calls[c].kind = "fetch"
    /\ calls[c].pc = "fetching"
    /\ calls[c].idx = 2
    /\ calls[c].priorities = <<"fandom", "dokkanInfo">>
    /\ Len(calls[c].attempts) = 1
    /\ calls[c].attempts[1].source = "fandom"
    /\ \E r \in inflight : r.call = c /\ r.source = "dokkanInfo"
    /\ sourcePriorities["cards"] = <<"fandom">>

(***************************************************************************)
(* Discovery of data types, two updates at a time                          *)
(***************************************************************************)
\* updateFromWiki([]) called while another call of it may be under way; the
\* sources list missions, or bosses and missions, and getSample rejects or
\* gives one or two records
NextTwin ==
  \/ \E c \in Calls, discovered \in {<<UnparsedType>>, <<UnknownType, UnparsedType>>} :
       Pairwise /\ StartUpdate(c, <<>>, discovered)
  \/ \E c \in Calls : Wake(c)
  \/ \E c \in Calls, raw \in {RawThrow, RawArray(<<SampleA>>), RawArray(<<SampleA, SampleB>>)} :
       Response(c, raw)
  \/ \E c \in Calls : Return(c)
  \/ \E d \in ShortSteps : Tick(d)

SpecTwin == Init /\ [][NextTwin]_vars

\* the calls of learnParserForNewDataType discovery made in this step
LearnedNow(c) ==
  IF calls'[c].kind = "update" /\ Len(calls'[c].registered) > 0
  THEN IF calls[c].kind = "update"
       THEN SubSeq(calls'[c].registered, Len(calls[c].registered) + 1,
                   Len(calls'[c].registered))
       ELSE calls'[c].registered
  ELSE <<>>

\* C37: discovery leaves every registered parser as it is; a type gains a
\* parser (and an entry of config.dataTypes if it has none) only in a step in
\* which discovery learned from a sample fetched for it, and then the type
\* has a priority list; a type without a priority list has neither a parser
\* nor an entry of config.dataTypes
C37_DiscoveryOnlyAddsParsers ==
  [][/\ \A ty \in DOMAIN parsers : ty \in DOMAIN parsers' /\ parsers'[ty] = parsers[ty]
     /\ \A ty \in (DOMAIN parsers') \ (DOMAIN parsers) :
          /\ Len(sourcePriorities[ty]) > 0
          /\ ty \in dataTypes'
          /\ \E c \in Calls : \E i \in 1..Len(LearnedNow(c)) :
               /\ LearnedNow(c)[i].dataType = ty
               /\ Len(LearnedNow(c)[i].sampleData) > 0
     /\ dataTypes' \ dataTypes \subseteq (DOMAIN parsers') \ (DOMAIN parsers)
     /\ \A ty \in KnownTypes :
          Len(sourcePriorities'[ty]) = 0 => ty \notin DOMAIN parsers' /\ ty \notin dataTypes'
    ]_vars

\* a second update has registered a parser for missions that differs from the
\* one the first update registered
C37_Replaced ==
  /\ UnparsedType \in DOMAIN parsers
  /\ \E c \in Calls :
       /\ calls[c].kind = "update"
       /\ Len(calls[c].registered) > 0
       /\ calls[c].registered[Len(calls[c].registered)].dataType = UnparsedType
       /\ parsers[UnparsedType] #
            newParser(calls[c].registered[Len(calls[c].registered)].sampleData)

(***************************************************************************)
(* getCardData                                                             *)
(***************************************************************************)
\* getCardData for one card, two calls at a time, next to getLatestCards and
\* clearCache, over seconds and over half hours; fandomAPI.getCardData and
\* dokkanScraper.scrapeCardData reject or give one record
NextCard ==
  \/ \E c \in Calls : Pairwise /\ StartCard(c)
  \/ \E c \in Calls : Quiet /\ StartHandler(c, "cards")
  \/ Quiet /\ ClearCache
  \/ \E c \in Calls : Wake(c)
  \/ \E c \in Calls, raw \in {RawThrow, RawObject(GoodItem)} : Response(c, raw)
  \/ \E c \in Calls : Return(c)
  \/ \E d \in ShortSteps \cup LongSteps : Tick(d)

SpecCard == Init /\ [][NextCard]_vars

\* C38: a getCardData that starts while the card's file is there answers in
\* that step with what the file holds, whatever its age, asks no source and
\* writes nothing; a getCardData whose fetch succeeded leaves the file there;
\* and the file goes away only when clearCache empties the cache
C38_CardEntriesNeverExpire ==
  [][/\ \A c \in Calls :
          (calls[c].pc = "idle" /\ calls'[c].kind = "card" /\ cache[CardKey].present)
            => /\ calls'[c].pc = "done"
               /\ calls'[c].result.status = "ok"
               /\ calls'[c].result.fromCache
               /\ calls'[c].result.data = cache[CardKey].data
               /\ calls'[c].attempts = <<>>
               /\ inflight' = inflight
               /\ lastIssued' = lastIssued
               /\ cache' = cache
     /\ \A c \in Calls :
          (/\ calls[c].kind = "card" /\ calls[c].pc # "done"
           /\ calls'[c].kind = "card" /\ calls'[c].pc = "done"
           /\ calls'[c].result.status = "ok")
            => /\ cache'[CardKey].present
               /\ cache'[CardKey].data = jsonRecord(cardEntry(calls'[c].result, now)).data
     /\ (cache[CardKey].present /\ ~cache'[CardKey].present) => cache' = clearCache(cache)
    ]_vars

\* a getCardData was answered from a file written an hour or more before,
\* the age at which the handlers take a list of cards to have expired
C38_Witness ==
  /\ cache[CardKey].present
  /\ now - cache[CardKey].timestamp >= 3600000
  /\ \E c \in Calls :
       /\ calls[c].kind = "card"
       /\ calls[c].pc = "done"
       /\ calls[c].result.fromCache
       /\ calls[c].result.data = cache[CardKey].data
       /\ calls[c].result.data # <<>>

====
